---- MODULE Spec2Model ----
(***************************************************************************)
(* crossbeam-circbuf: the tagged circular buffer of buffer.rs.             *)
(*                                                                         *)
(* A Buffer<T> is an array of `cap` slots; a slot pairs an atomic `index`  *)
(* (the logical position last published there) with a `data` cell.  One    *)
(* writer thread calls write, any number of reader threads call read and   *)
(* read_unchecked.  Every step of the model is one access to shared        *)
(* memory; the pointer arithmetic of `at` is local to the calling thread.  *)
(*                                                                         *)
(* The accesses to `data` are volatile and not atomic: a store is modelled *)
(* as two steps with a torn cell in between, and a load of a cell that was *)
(* never stored may produce any value.                                     *)
(*                                                                         *)
(* Specifications:                                                         *)
(*   Spec       one writer, the readers and drop, positions from 0;        *)
(*   SeqSpec    the same calls, one at a time;                             *)
(*   MultiSpec  a second thread calls write as well;                       *)
(*   WrapSpec   as Spec, the positions crossing the overflow of usize;     *)
(*   TrySpec    TryRecv<T> of lib.rs and its map.                          *)
(***************************************************************************)
EXTENDS Integers, FiniteSets, Sequences, TLC

\* ------------------------------------------------------------------ bounds
\* Number of reader threads.
NumReaders == 2
\* Number of distinct payload values the writer may publish.
NumValues == 2
\* Logical positions range from 0 to the first position of lap Laps.
Laps == 1
\* Capacities are the powers of two 2^0 .. 2^MaxCapLog.
MaxCapLog == 2
\* Width in bits of usize, the type of capacities and logical positions.
UsizeBits == 4

Readers == 1 .. NumReaders
Values == 1 .. NumValues

RECURSIVE Pow2(_)
Pow2(k) == IF k = 0 THEN 1 ELSE 2 * Pow2(k - 1)

Caps == {Pow2(k) : k \in 0 .. MaxCapLog}

\* Positions are usize values: arithmetic on them wraps modulo Usize.
Usize == Pow2(UsizeBits)

\* ------------------------------------------------------- payload cells
\* A cell of type ManuallyDrop<T>: a stored value, memory that was never
\* stored, or a partially stored (torn) value.
Val(v) == <<"val", v>>
Uninit == <<"uninit", 0>>
Torn == <<"torn", 0>>
Garbage == <<"garbage", 0>>

\* Option<ManuallyDrop<T>>
None == [some |-> FALSE]
Some(x) == [some |-> TRUE, v |-> x]

\* What a volatile load of a cell can produce: the cell's content, or, for
\* memory that was never stored, any bit pattern.
LoadOutcomes(cell) ==
    IF cell = Uninit THEN {Val(v) : v \in Values} \cup {Garbage} ELSE {cell}

\* --------------------------------------------------------------- state
VARIABLES
    alive,       \* the Buffer has not been dropped
    cap,         \* Buffer.cap
    slot_index,  \* Slot.index of each physical slot
    slot_data,   \* Slot.data of each physical slot
    wpc,         \* writer: "idle", "data" (store begun), "index" (data stored)
    windex,      \* writer: argument `index` of the write in progress
    wvalue,      \* writer: argument `value` of the write in progress
    rpc,         \* reader r: "idle" or "data" (index matched, data not loaded)
    rindex,      \* reader r: argument `index` of the read in progress
    ret,         \* the call that returned in the last step, if any
    new_cap,     \* history: the capacity that was passed to new
    written,     \* history: value of the completed write at each position
    rwin,        \* history, reader r: what held when it loaded the index
    drops,       \* history: payload destructors run by the buffer
    start,       \* history: the first logical position the callers use
    w2pc,        \* a second writing thread: as wpc
    w2index,     \* a second writing thread: as windex
    w2value,     \* a second writing thread: as wvalue
    trecv        \* a TryRecv<T> value and the closure given to its map

vars == <<alive, cap, slot_index, slot_data, wpc, windex, wvalue, rpc, rindex,
          ret, new_cap, written, rwin, drops, start, w2pc, w2index, w2value,
          trecv>>

\* What no step of the writer, of a reader or of drop touches.
rest == <<start, w2pc, w2index, w2value, trecv>>

\* The logical positions the threads use: those of the first Laps laps from
\* the first position `first`, and the first position of the next lap.
PositionsFrom(first, c) == {(first + k) % Usize : k \in 0 .. Laps * c}

Positions == DOMAIN written

\* Place of a position in the order the callers' counter takes them.
Rank(p) == (p - start) % Usize

Unwritten == <<"unwritten", 0>>

\* History of a read, taken when it loads the slot's index:
\*   pub     a write at the read's position had completed;
\*   lapped  a write at a later position of the same slot had completed;
\*   clean   no write at another position of the slot has stored data, or
\*           begun to, that the read's load of the data could see;
\*   mid     a write at the read's position had stored its data and not yet
\*           its index;
\*   quiet   no write has begun or completed a store of data to the slot
\*           since.
NoWin == [pub |-> FALSE, lapped |-> FALSE, clean |-> TRUE, mid |-> FALSE,
          quiet |-> TRUE]
NoRet == [op |-> "none", index |-> 0, res |-> None, win |-> NoWin]

\* ------------------------------------------------------------ addressing
RECURSIVE BitAnd(_, _)
BitAnd(a, b) ==
    IF a = 0 \/ b = 0 THEN 0
    ELSE (a % 2) * (b % 2) + 2 * BitAnd(a \div 2, b \div 2)

\* Variant of at: the capacity itself used as the mask.
at_mask_cap(index) == BitAnd(index, cap)

\* Buffer::at: offset of the slot for a logical position.
at(index) == BitAnd(index, cap - 1)

\* Buffer::cap
Cap == cap

\* ---------------------------------------------------------- construction
\* Variant of new: slot i starts with index i.
new_index_i(c) ==
    [cap |-> c,
     index |-> [i \in 0 .. c - 1 |-> i],
     data |-> [i \in 0 .. c - 1 |-> Uninit]]

\* Buffer::new: slot i starts with index i + 1 and data never stored.
new(c) ==
    [cap |-> c,
     index |-> [i \in 0 .. c - 1 |-> i + 1],
     data |-> [i \in 0 .. c - 1 |-> Uninit]]

\* ------------------------------------------------------------- TryRecv<T>
\* The payloads of a TryRecv, and the closures map is given.
Payloads == 0 .. NumValues
Closures == [Payloads -> Payloads]

\* enum TryRecv<T> { Data(T), Empty, Retry }
Data(v) == <<"Data", v>>
Empty == <<"Empty", 0>>
Retry == <<"Retry", 0>>
TryRecvs == {Data(v) : v \in Payloads} \cup {Empty, Retry}

\* Variant of map: the two variants without content are exchanged.
map_swap(self, f) ==
    CASE self[1] = "Data" -> Data(f[self[2]])
      [] self = Empty -> Retry
      [] self = Retry -> Empty

\* TryRecv::map
map(self, f) ==
    CASE self[1] = "Data" -> Data(f[self[2]])
      [] self = Empty -> Empty
      [] self = Retry -> Retry

\* A TryRecv `self` on which map has not been called yet.
Fresh(self) ==
    [self |-> self, called |-> FALSE, f |-> [v \in Payloads |-> v],
     out |-> self]
NoMap == Fresh(Empty)

\* The state after Buffer::new(c), the callers' counter being at `first`.
InitAt(c, first) ==
    /\ alive = TRUE
    /\ cap = new(c).cap
    /\ slot_index = new(c).index
    /\ slot_data = new(c).data
    /\ wpc = "idle"
    /\ windex = 0
    /\ wvalue = 1
    /\ rpc = [r \in Readers |-> "idle"]
    /\ rindex = [r \in Readers |-> 0]
    /\ ret = NoRet
    /\ new_cap = c
    /\ written = [p \in PositionsFrom(first, c) |-> Unwritten]
    /\ rwin = [r \in Readers |-> NoWin]
    /\ drops = 0
    /\ start = first
    /\ w2pc = "idle"
    /\ w2index = 0
    /\ w2value = 1

Init ==
    \E c \in Caps :
        /\ InitAt(c, 0)
        /\ trecv = NoMap

\* ----------------------------------------------------------- destruction
\* Length of the Vec rebuilt by Drop: Vec::from_raw_parts(self.ptr, 0, self.cap).
DropLen == 0

\* Drop glue of a Slot's `data: UnsafeCell<ManuallyDrop<T>>`: the payloads
\* whose destructor runs when the slot is dropped.
ManuallyDropGlue(cell) == {}

\* Variant of WriteVolatileGlue: a plain assignment, which drops the old value.
AssignGlue(old) == IF old[1] = "val" THEN {old} ELSE {}

\* Payloads whose destructor runs when write_volatile overwrites a cell.
WriteVolatileGlue(old) == {}

\* ------------------------------------------------------------- the writer
\* Positions of completed writes.
WrittenPositions == {p \in Positions : written[p] # Unwritten}

\* Positions of the writes in progress, and those among them whose data is
\* stored.
InFlight ==
    {k \in Positions : \/ wpc # "idle" /\ windex = k
                       \/ w2pc # "idle" /\ w2index = k}
Stored ==
    {k \in Positions : \/ wpc = "index" /\ windex = k
                       \/ w2pc = "index" /\ w2index = k}

\* The callers hand a position to one write only, in increasing order.
Ahead(index) ==
    /\ \A p \in WrittenPositions : Rank(p) < Rank(index)
    /\ index \notin InFlight

\* What the cell of `index` holds once a store to it has begun: a torn value,
\* or, when another thread's store to the cell is under way, a mix of both.
StoreBegun(index) ==
    IF \/ wpc = "data" /\ at(windex) = at(index)
       \/ w2pc = "data" /\ at(w2index) = at(index)
    THEN Garbage ELSE Torn

\* What the cell can hold once a store of `value` to it is complete: the
\* value, unless another thread's store raced with this one (`racing`: it is
\* still under way).
StoreDone(cell, value, racing) ==
    IF racing THEN {Garbage}
    ELSE IF cell = Garbage THEN {Val(value), Garbage}
    ELSE {Val(value)}

\* The histories of the reads in progress after a step that stores data, or
\* begins to, into the slot of `index`.
Disturbed(index, begins) ==
    [r \in Readers |->
        IF rpc[r] = "data" /\ at(rindex[r]) = at(index)
        THEN [rwin[r] EXCEPT !.clean = IF begins THEN FALSE ELSE @,
                             !.quiet = FALSE]
        ELSE rwin[r]]

\* Variant of write_begin: the index is published before the data is stored.
write_begin_publish(index, value) ==
    /\ alive
    /\ wpc = "idle"
    /\ Ahead(index)
    /\ slot_data' = [slot_data EXCEPT ![at(index)] = StoreBegun(index)]
    /\ slot_index' = [slot_index EXCEPT ![at(index)] = index]
    /\ written' = [written EXCEPT ![index] = Val(value)]
    /\ drops' = drops + Cardinality(WriteVolatileGlue(slot_data[at(index)]))
    /\ wpc' = "data"
    /\ windex' = index
    /\ wvalue' = value
    /\ ret' = NoRet
    /\ rwin' = Disturbed(index, TRUE)
    /\ UNCHANGED rest
    /\ UNCHANGED <<alive, cap, rpc, rindex, new_cap>>

\* Buffer::write, first half of the volatile store of `value`.  The single
\* writer publishes at increasing logical positions.
write_begin(index, value) ==
    /\ alive
    /\ wpc = "idle"
    /\ Ahead(index)
    /\ slot_data' = [slot_data EXCEPT ![at(index)] = StoreBegun(index)]
    /\ drops' = drops + Cardinality(WriteVolatileGlue(slot_data[at(index)]))
    /\ wpc' = "data"
    /\ windex' = index
    /\ wvalue' = value
    /\ ret' = NoRet
    /\ rwin' = Disturbed(index, TRUE)
    /\ UNCHANGED rest
    /\ UNCHANGED <<alive, cap, slot_index, rpc, rindex, new_cap, written>>

\* Variant of write_data: every position shares the cell of slot 0.
write_data_slot0 ==
    /\ wpc = "data"
    /\ slot_data' = [slot_data EXCEPT ![0] = Val(wvalue)]
    /\ wpc' = "index"
    /\ ret' = NoRet
    /\ rwin' = Disturbed(windex, FALSE)
    /\ UNCHANGED rest
    /\ UNCHANGED <<alive, cap, slot_index, windex, wvalue, rpc, rindex,
                   new_cap, written, drops>>

\* Buffer::write, the volatile store of `value` completes.
write_data ==
    /\ wpc = "data"
    /\ \E x \in StoreDone(slot_data[at(windex)], wvalue,
                          w2pc = "data" /\ at(w2index) = at(windex)) :
           slot_data' = [slot_data EXCEPT ![at(windex)] = x]
    /\ wpc' = "index"
    /\ ret' = NoRet
    /\ rwin' = Disturbed(windex, FALSE)
    /\ UNCHANGED rest
    /\ UNCHANGED <<alive, cap, slot_index, windex, wvalue, rpc, rindex,
                   new_cap, written, drops>>

\* Variant of write_index: the index goes to the slot after the data's.
write_index_next_slot ==
    /\ wpc = "index"
    /\ slot_index' = [slot_index EXCEPT ![at(windex + 1)] = windex]
    /\ written' = [written EXCEPT ![windex] = Val(wvalue)]
    /\ wpc' = "idle"
    /\ windex' = 0
    /\ wvalue' = 1
    /\ ret' = [op |-> "write", index |-> windex, res |-> None, win |-> NoWin]
    /\ UNCHANGED rest
    /\ UNCHANGED <<alive, cap, slot_data, rpc, rindex, new_cap, rwin, drops>>

\* Buffer::write, the Release store of `index`; write returns.
write_index ==
    /\ wpc = "index"
    /\ slot_index' = [slot_index EXCEPT ![at(windex)] = windex]
    /\ written' = [written EXCEPT ![windex] = Val(wvalue)]
    /\ wpc' = "idle"
    /\ windex' = 0
    /\ wvalue' = 1
    /\ ret' = [op |-> "write", index |-> windex, res |-> None, win |-> NoWin]
    /\ UNCHANGED rest
    /\ UNCHANGED <<alive, cap, slot_data, rpc, rindex, new_cap, rwin, drops>>

\* ------------------------------------------------- a second writing thread
\* Buffer::write called by a second thread, first half of the volatile store.
write2_begin(index, value) ==
    /\ alive
    /\ w2pc = "idle"
    /\ Ahead(index)
    /\ slot_data' = [slot_data EXCEPT ![at(index)] = StoreBegun(index)]
    /\ drops' = drops + Cardinality(WriteVolatileGlue(slot_data[at(index)]))
    /\ w2pc' = "data"
    /\ w2index' = index
    /\ w2value' = value
    /\ ret' = NoRet
    /\ rwin' = Disturbed(index, TRUE)
    /\ UNCHANGED <<alive, cap, slot_index, wpc, windex, wvalue, rpc, rindex,
                   new_cap, written, start, trecv>>

\* Variant of write2_data: the data goes to the slot after the index's.
write2_data_next_slot ==
    /\ w2pc = "data"
    /\ slot_data' = [slot_data EXCEPT ![at(w2index + 1)] = Val(w2value)]
    /\ w2pc' = "index"
    /\ ret' = NoRet
    /\ rwin' = Disturbed(w2index, FALSE)
    /\ UNCHANGED <<alive, cap, slot_index, wpc, windex, wvalue, rpc, rindex,
                   new_cap, written, drops, start, w2index, w2value, trecv>>

\* Buffer::write called by a second thread, the volatile store completes.
write2_data ==
    /\ w2pc = "data"
    /\ \E x \in StoreDone(slot_data[at(w2index)], w2value,
                          wpc = "data" /\ at(windex) = at(w2index)) :
           slot_data' = [slot_data EXCEPT ![at(w2index)] = x]
    /\ w2pc' = "index"
    /\ ret' = NoRet
    /\ rwin' = Disturbed(w2index, FALSE)
    /\ UNCHANGED <<alive, cap, slot_index, wpc, windex, wvalue, rpc, rindex,
                   new_cap, written, drops, start, w2index, w2value, trecv>>

\* Buffer::write called by a second thread, the Release store of `index`.
write2_index ==
    /\ w2pc = "index"
    /\ slot_index' = [slot_index EXCEPT ![at(w2index)] = w2index]
    /\ written' = [written EXCEPT ![w2index] = Val(w2value)]
    /\ w2pc' = "idle"
    /\ w2index' = 0
    /\ w2value' = 1
    /\ ret' = [op |-> "write", index |-> w2index, res |-> None, win |-> NoWin]
    /\ UNCHANGED <<alive, cap, slot_data, wpc, windex, wvalue, rpc, rindex,
                   new_cap, rwin, drops, start, trecv>>

\* ------------------------------------------------------------ the readers
\* The history of a read of `index` whose load of the slot's index happens
\* in the current state.
WinAt(index) ==
    [pub |-> written[index] # Unwritten,
     lapped |-> \E k \in Positions : /\ Rank(k) > Rank(index)
                                      /\ k % cap = index % cap
                                      /\ written[k] # Unwritten,
     clean |-> ~\E k \in InFlight : k # index /\ k % cap = index % cap,
     mid |-> index \in Stored,
     quiet |-> TRUE]

\* Variant of read_index: the comparison is made on the masked positions.
read_index_masked(r, index) ==
    /\ alive
    /\ rpc[r] = "idle"
    /\ IF at(index) # at(slot_index[at(index)])
       THEN /\ ret' = [op |-> "read", index |-> index, res |-> None,
                       win |-> WinAt(index)]
            /\ UNCHANGED <<rpc, rindex, rwin>>
       ELSE /\ rpc' = [rpc EXCEPT ![r] = "data"]
            /\ rindex' = [rindex EXCEPT ![r] = index]
            /\ rwin' = [rwin EXCEPT ![r] = WinAt(index)]
            /\ ret' = NoRet
    /\ UNCHANGED rest
    /\ UNCHANGED <<alive, cap, slot_index, slot_data, wpc, windex, wvalue,
                   new_cap, written, drops>>

\* Buffer::read, the Acquire load of the slot's index and the comparison:
\* a mismatch returns None, a match goes on to load the data.
read_index(r, index) ==
    /\ alive
    /\ rpc[r] = "idle"
    /\ IF index # slot_index[at(index)]
       THEN /\ ret' = [op |-> "read", index |-> index, res |-> None,
                       win |-> WinAt(index)]
            /\ UNCHANGED <<rpc, rindex, rwin>>
       ELSE /\ rpc' = [rpc EXCEPT ![r] = "data"]
            /\ rindex' = [rindex EXCEPT ![r] = index]
            /\ rwin' = [rwin EXCEPT ![r] = WinAt(index)]
            /\ ret' = NoRet
    /\ UNCHANGED rest
    /\ UNCHANGED <<alive, cap, slot_index, slot_data, wpc, windex, wvalue,
                   new_cap, written, drops>>

\* Variant of read_data: the read consumes the slot by invalidating its index.
read_data_consume(r) ==
    /\ rpc[r] = "data"
    /\ \E x \in LoadOutcomes(slot_data[at(rindex[r])]) :
           ret' = [op |-> "read", index |-> rindex[r], res |-> Some(x),
                   win |-> rwin[r]]
    /\ slot_index' = [slot_index EXCEPT ![at(rindex[r])] = rindex[r] + 1]
    /\ rpc' = [rpc EXCEPT ![r] = "idle"]
    /\ rindex' = [rindex EXCEPT ![r] = 0]
    /\ rwin' = [rwin EXCEPT ![r] = NoWin]
    /\ UNCHANGED rest
    /\ UNCHANGED <<alive, cap, slot_data, wpc, windex, wvalue,
                   new_cap, written, drops>>

\* Variant of read_data: the read waits until the slot's index matches again.
read_data_wait(r) ==
    /\ rpc[r] = "data"
    /\ slot_index[at(rindex[r])] = rindex[r]
    /\ \E x \in LoadOutcomes(slot_data[at(rindex[r])]) :
           ret' = [op |-> "read", index |-> rindex[r], res |-> Some(x),
                   win |-> rwin[r]]
    /\ rpc' = [rpc EXCEPT ![r] = "idle"]
    /\ rindex' = [rindex EXCEPT ![r] = 0]
    /\ rwin' = [rwin EXCEPT ![r] = NoWin]
    /\ UNCHANGED rest
    /\ UNCHANGED <<alive, cap, slot_index, slot_data, wpc, windex, wvalue,
                   new_cap, written, drops>>

\* Buffer::read, the volatile load of the data; read returns Some.
read_data(r) ==
    /\ rpc[r] = "data"
    /\ \E x \in LoadOutcomes(slot_data[at(rindex[r])]) :
           ret' = [op |-> "read", index |-> rindex[r], res |-> Some(x),
                   win |-> rwin[r]]
    /\ rpc' = [rpc EXCEPT ![r] = "idle"]
    /\ rindex' = [rindex EXCEPT ![r] = 0]
    /\ rwin' = [rwin EXCEPT ![r] = NoWin]
    /\ UNCHANGED rest
    /\ UNCHANGED <<alive, cap, slot_index, slot_data, wpc, windex, wvalue,
                   new_cap, written, drops>>

\* Variant of read_unchecked: the load moves the value out of the cell.
read_unchecked_take(r, index) ==
    /\ alive
    /\ rpc[r] = "idle"
    /\ \E x \in LoadOutcomes(slot_data[at(index)]) :
           ret' = [op |-> "read_unchecked", index |-> index, res |-> x,
                   win |-> WinAt(index)]
    /\ slot_data' = [slot_data EXCEPT ![at(index)] = Uninit]
    /\ UNCHANGED rest
    /\ UNCHANGED <<alive, cap, slot_index, wpc, windex, wvalue,
                   rpc, rindex, new_cap, written, rwin, drops>>

\* Variant of read_unchecked: the slot's index is checked, and what is
\* returned on a mismatch is unspecified.
read_unchecked_checked(r, index) ==
    /\ alive
    /\ rpc[r] = "idle"
    /\ \E x \in IF index # slot_index[at(index)] THEN {Garbage}
               ELSE LoadOutcomes(slot_data[at(index)]) :
           ret' = [op |-> "read_unchecked", index |-> index, res |-> x,
                   win |-> WinAt(index)]
    /\ UNCHANGED rest
    /\ UNCHANGED <<alive, cap, slot_index, slot_data, wpc, windex, wvalue,
                   rpc, rindex, new_cap, written, rwin, drops>>

\* Buffer::read_unchecked: the volatile load of the data, whatever the index.
read_unchecked(r, index) ==
    /\ alive
    /\ rpc[r] = "idle"
    /\ \E x \in LoadOutcomes(slot_data[at(index)]) :
           ret' = [op |-> "read_unchecked", index |-> index, res |-> x,
                   win |-> WinAt(index)]
    /\ UNCHANGED rest
    /\ UNCHANGED <<alive, cap, slot_index, slot_data, wpc, windex, wvalue,
                   rpc, rindex, new_cap, written, rwin, drops>>

\* ------------------------------------------------------------------- drop
\* Drop for Buffer: needs exclusive access, so no call is in progress.  The
\* Vec it rebuilds has DropLen elements; dropping it runs the drop glue of
\* those elements and frees the block.
drop ==
    /\ alive
    /\ wpc = "idle"
    /\ \A r \in Readers : rpc[r] = "idle"
    /\ alive' = FALSE
    /\ drops' = drops + Cardinality({i \in 0 .. DropLen - 1 :
                                        /\ i < cap
                                        /\ ManuallyDropGlue(slot_data[i]) # {}})
    /\ ret' = [op |-> "drop", index |-> 0, res |-> None, win |-> NoWin]
    /\ UNCHANGED rest
    /\ UNCHANGED <<cap, slot_index, slot_data, wpc, windex, wvalue, rpc,
                   rindex, new_cap, written, rwin>>

\* ---------------------------------------------------------- specification
Next ==
    \/ \E index \in Positions, value \in Values : write_begin(index, value)
    \/ write_data
    \/ write_index
    \/ \E r \in Readers, index \in Positions : read_index(r, index)
    \/ \E r \in Readers : read_data(r)
    \/ \E r \in Readers, index \in Positions : read_unchecked(r, index)
    \/ drop

Spec == Init /\ [][Next]_vars

\* No call is in progress.
Quiescent == wpc = "idle" /\ \A r \in Readers : rpc[r] = "idle"

\* Runs without concurrency: a call starts only when no call is in progress.
SeqNext ==
    \/ /\ Quiescent
       /\ \/ \E index \in Positions, value \in Values : write_begin(index, value)
          \/ \E r \in Readers, index \in Positions : read_index(r, index)
          \/ \E r \in Readers, index \in Positions : read_unchecked(r, index)
          \/ drop
    \/ write_data
    \/ write_index
    \/ \E r \in Readers : read_data(r)

SeqSpec == Init /\ [][SeqNext]_vars

\* The reader that runs beside two writers: reads change nothing another
\* reader can see.
Observer == CHOOSE r \in Readers : TRUE

\* Two threads write, against the contract of one writer, while a reader
\* reads.
MultiNext ==
    \/ \E index \in Positions, value \in Values : write_begin(index, value)
    \/ write_data
    \/ write_index
    \/ \E index \in Positions, value \in Values : write2_begin(index, value)
    \/ write2_data
    \/ write2_index
    \/ \E index \in Positions : read_index(Observer, index)
    \/ read_data(Observer)

MultiSpec == Init /\ [][MultiNext]_vars

\* The callers' counter starts one lap before it overflows.
WrapInit ==
    \E c \in Caps :
        /\ InitAt(c, Usize - c)
        /\ trecv = NoMap

WrapSpec == WrapInit /\ [][Next]_vars

\* A call of map on the outcome at hand, which is the outcome of try_recv or
\* of the previous map: outcome.map(f).map(g)...
map_call(g) ==
    /\ trecv' = [self |-> trecv.out, called |-> TRUE, f |-> g,
                 out |-> map(trecv.out, g)]
    /\ UNCHANGED <<alive, cap, slot_index, slot_data, wpc, windex, wvalue, rpc,
                   rindex, ret, new_cap, written, rwin, drops, start, w2pc,
                   w2index, w2value>>

TryInit ==
    /\ InitAt(1, 0)
    /\ \E x \in TryRecvs : trecv = Fresh(x)

TryNext == \E g \in Closures : map_call(g)

TrySpec == TryInit /\ [][TryNext]_vars

TypeOK ==
    /\ alive \in BOOLEAN
    /\ cap \in Caps
    /\ DOMAIN slot_index = 0 .. cap - 1
    /\ DOMAIN slot_data = 0 .. cap - 1
    /\ wpc \in {"idle", "data", "index"}
    /\ \A r \in Readers : rpc[r] \in {"idle", "data"}
    /\ ret.op \in {"none", "write", "read", "read_unchecked", "drop"}

\* -------------------------------------------------------------- properties
IsRead == ret.op = "read"

\* A position of the same physical slot as p, by arithmetic.
SameSlot(p, q) == p % cap = q % cap

\* ret is a read that returned Some.
IsSome == IsRead /\ ret.res.some

\* C1 (as stated): every read(p) that observed the index p published by
\* write(p, v) returns exactly v, whatever the interleaving.
C1_Original ==
    (IsSome /\ ret.win.pub) => ret.res.v = written[ret.index]

\* C1 (amended): a read(p) that observed the index p published by
\* write(p, v) returns exactly v provided no write at another position of the
\* same slot stores data, or has begun to, between the read's load of the
\* index and its load of the data.
C1_Coherence ==
    (IsSome /\ ret.win.pub /\ ret.win.clean) => ret.res.v = written[ret.index]

\* C1 witness: a read returned the published value while the writer was in
\* the middle of a store to another slot.
C1_Witness ==
    /\ IsSome /\ ret.win.pub /\ ret.win.clean
    /\ ret.res.v = written[ret.index]
    /\ wpc = "data"
    /\ ~SameSlot(windex, ret.index)

\* C2: once write(p, v1) and then write(p + cap, v2) have completed, a
\* read(p) that starts afterwards returns None, and a read(p + cap) that
\* starts afterwards, before the slot is written again, returns v2.
C2_Staleness ==
    IsRead =>
        /\ ret.win.lapped => ret.res = None
        /\ ( /\ ret.index >= cap
             /\ written[ret.index - cap] # Unwritten
             /\ ret.win.pub /\ ~ret.win.lapped /\ ret.win.clean )
           => ret.res = Some(written[ret.index])

\* C2 witness: read(p) returned None after write(p, v1) and write(p + cap, v2)
\* with v1 # v2.
C2_Witness ==
    /\ IsRead
    /\ ret.index + cap \in Positions
    /\ written[ret.index] # Unwritten
    /\ written[ret.index + cap] # Unwritten
    /\ written[ret.index + cap] # written[ret.index]
    /\ ret.win.lapped
    /\ ret.res = None

\* No write has begun.
NothingWritten == WrittenPositions = {} /\ wpc = "idle"

\* C3: after new(c) and before any write, read(p) returns None for every p
\* in [0, c).
C3_InitialStateValidity ==
    (NothingWritten /\ IsRead /\ ret.index < cap) => ret.res = None

\* C3 witness: read(c - 1) returned None on a fresh buffer of capacity 4.
C3_Witness ==
    /\ NothingWritten
    /\ cap = 4
    /\ IsRead /\ ret.index = cap - 1
    /\ ret.res = None

\* What read(index) returns from the history of completed writes: the value
\* written at index if that is the latest write of its slot, else None.
Expected(index) ==
    IF /\ written[index] # Unwritten
       /\ ~\E k \in Positions :
              k > index /\ SameSlot(k, index) /\ written[k] # Unwritten
    THEN Some(written[index])
    ELSE None

\* C4: without concurrency, once a write has completed, read(p) returns the
\* value of write(p, v) if that is the latest write of its slot and None for
\* every other position; in particular the capacity-4 scenario holds.
C4_SequentialReadAfterWrite ==
    IsRead =>
        /\ WrittenPositions # {} => ret.res = Expected(ret.index)
        /\ (cap = 4 /\ WrittenPositions = {0, 1}) =>
              /\ ret.index = 0 => ret.res = Some(written[0])
              /\ ret.index = 1 => ret.res = Some(written[1])
              /\ ret.index = 2 => ret.res = None
        /\ (cap = 4 /\ WrittenPositions = {0, 1, 4}) =>
              /\ ret.index = 0 => ret.res = None
              /\ ret.index = 4 => ret.res = Some(written[4])

\* C4 witness: the end of the scenario, read(4) = e after write(0, a),
\* write(1, b), write(4, e) with e # a.
C4_Witness ==
    /\ cap = 4
    /\ WrittenPositions = {0, 1, 4}
    /\ written[0] # written[4]
    /\ IsRead /\ ret.index = 4
    /\ ret.res = Some(written[4])

\* C5: at(p) lies in [0, cap), at(p) and at(p + cap) are the same slot, and
\* at(p) and at(q) differ whenever q # p and |p - q| < cap; the slot a write
\* in progress stores to is the one at windex modulo cap.
C5_CapacityMasking ==
    /\ \A p \in Positions :
          /\ at(p) \in 0 .. cap - 1
          /\ at(p) = at(p + cap)
          /\ \A q \in Positions :
                (q # p /\ q - p < cap /\ p - q < cap) => at(p) # at(q)
    /\ wpc = "data" => slot_data[windex % cap] = Torn

\* C5 witness: a write at position cap of a capacity-4 buffer is storing into
\* slot 0.
C5_Witness ==
    /\ cap = 4
    /\ wpc = "data"
    /\ windex = cap
    /\ slot_data[0] = Torn

\* C6: no operation of the buffer runs the destructor of a payload.
C6_NoImplicitDestruction == drops = 0

\* C6 witness: the buffer was dropped while holding values, after a write
\* overwrote the value of the previous cycle and a read handed a value out.
C6_Witness ==
    /\ ~alive
    /\ \E p \in Positions :
          /\ p + cap \in Positions
          /\ written[p] # Unwritten
          /\ written[p + cap] # Unwritten
          /\ slot_data[p % cap] = written[p + cap]

\* ret hands out the value published at its position.
IsHandOut == IsSome /\ ret.res.v = written[ret.index]

\* C7 (as stated): the value published at p is handed out at most once: a
\* read(p) that returns it is never followed by another read(p) returning it.
C7_Original ==
    [][~( /\ IsHandOut
          /\ IsHandOut'
          /\ ret'.index = ret.index
          /\ rpc' # rpc )]_vars

\* C7 (amended): read does not consume: every read(p) that loads the index
\* after write(p, v) completed and before a later write of the slot completed
\* returns Some, however many reads of p returned before it; handing a value
\* out at most once is left to the caller.
C7_ReadDoesNotConsume ==
    (IsRead /\ ret.win.pub /\ ~ret.win.lapped) => ret.res.some

\* C7 witness: a read(p) returned the value published at p while another
\* read(p) has matched the index and is about to load the same value.
C7_Witness ==
    /\ IsHandOut
    /\ ret.win.clean
    /\ \E r \in Readers :
          /\ rpc[r] = "data"
          /\ rindex[r] = ret.index
          /\ rwin[r].clean
          /\ slot_data[ret.index % cap] = written[ret.index]

\* The step is taken by a reader.
ReaderStep ==
    \/ rpc' # rpc
    \/ ret'.op \in {"read", "read_unchecked"}

\* The step is taken by the writer.
WriterStep == wpc' # wpc

\* C8: no step of read or read_unchecked changes the index or the data of a
\* slot, or the capacity; a step that changes them is a step of write.
C8_ReadersNeverMutate ==
    [][ /\ ReaderStep => UNCHANGED <<slot_index, slot_data, cap>>
        /\ ~UNCHANGED <<slot_index, slot_data>> => WriterStep ]_vars

\* C8 witness: read and read_unchecked calls have returned values.
C8_Witness ==
    /\ ret.op = "read_unchecked"
    /\ ret.res = written[ret.index]
    /\ slot_index[ret.index % cap] = ret.index
    /\ slot_data[ret.index % cap] = ret.res

\* The position the writer's current step is for.
StepIndex == IF wpc = "idle" THEN windex' ELSE windex

\* C9: a step of write changes the index and data of no slot but the one at
\* its position modulo the capacity, and cap() is the capacity that was passed
\* to new, in every state.
C9_WriteFrame ==
    /\ [](Cap = new_cap)
    /\ [][ /\ Cap' = Cap
           /\ WriterStep =>
                 \A s \in 0 .. cap - 1 :
                     s # StepIndex % cap =>
                         /\ slot_index'[s] = slot_index[s]
                         /\ slot_data'[s] = slot_data[s] ]_vars

\* C9 witness: a write completed on one slot of a larger buffer whose other
\* slots still hold their initial index and the data of an earlier write.
C9_Witness ==
    /\ cap = 4
    /\ new_cap = 4
    /\ ret.op = "write"
    /\ ret.index = 1
    /\ slot_index[1] = 1
    /\ slot_index[0] = 0
    /\ slot_data[0] = written[0]
    /\ slot_index[2] = 3

\* The steps that continue a call in progress.
WriterContinue == write_data \/ write_index
ReaderContinue(r) == read_data(r)

\* C10: a call in progress can always take its next step, whatever the other
\* threads are doing; its steps only move forward (write: data, index,
\* return; read: index, data, return); and a thread that keeps taking its
\* own steps returns from every call it started, with no fairness assumed
\* for any other thread.
C10_NonBlocking ==
    /\ [](wpc # "idle" => ENABLED WriterContinue)
    /\ \A r \in Readers : [](rpc[r] = "data" => ENABLED ReaderContinue(r))
    /\ [][ /\ (wpc = "data" /\ wpc' # wpc) => wpc' = "index"
           /\ (wpc = "index" /\ wpc' # wpc) => wpc' = "idle"
           /\ \A r \in Readers :
                 (rpc[r] = "data" /\ rpc'[r] # rpc[r]) =>
                     (rpc'[r] = "idle" /\ ret'.op = "read") ]_vars
    /\ WF_vars(WriterContinue) => (wpc # "idle" ~> wpc = "idle")
    /\ \A r \in Readers :
          WF_vars(ReaderContinue(r)) => (rpc[r] = "data" ~> rpc[r] = "idle")

\* C10 witness: a write returned while a reader is stalled between its load
\* of the index and its load of the data of the same slot.
C10_Witness ==
    /\ ret.op = "write"
    /\ \E r \in Readers : rpc[r] = "data" /\ SameSlot(rindex[r], ret.index)

\* C11: read_unchecked(p) returns what the data cell of slot p & (cap - 1)
\* holds, whatever the slot's index is; when no write is in progress and the
\* slot's index is p, so that read(p) returns Some(v), it returns the same v,
\* the value of the completed write at p (for a cell that was never stored
\* both calls load the same unstored memory).
C11_ReadUnchecked ==
    ret.op = "read_unchecked" =>
        /\ ret.res \in LoadOutcomes(slot_data[BitAnd(ret.index, cap - 1)])
        /\ (/\ wpc = "idle"
            /\ slot_index[BitAnd(ret.index, cap - 1)] = ret.index
            /\ slot_data[BitAnd(ret.index, cap - 1)] # Uninit)
           => /\ ret.res = written[ret.index]
              /\ \A x \in LoadOutcomes(slot_data[BitAnd(ret.index, cap - 1)]) :
                     x = ret.res

\* C11 witness: read_unchecked returned a stored value while the slot's index
\* differed from its argument.
C11_Witness ==
    /\ ret.op = "read_unchecked"
    /\ ret.res[1] = "val"
    /\ slot_index[BitAnd(ret.index, cap - 1)] # ret.index
    /\ wpc = "idle"

\* C12: map keeps the variant, which is one of Data, Empty and Retry: it
\* takes Data(v) to Data(f(v)), Empty to Empty and Retry to Retry.
C12_MapKeepsVariant ==
    trecv.called =>
        /\ trecv.out[1] \in {"Data", "Empty", "Retry"}
        /\ trecv.out[1] = trecv.self[1]
        /\ trecv.self[1] = "Data" => trecv.out[2] = trecv.f[trecv.self[2]]
        /\ trecv.self[1] # "Data" => trecv.out = trecv.self

\* C12 witness: map changed the content of a Data, after a map that had
\* changed it too.
C12_Witness ==
    /\ trecv.called
    /\ trecv.self[1] = "Data"
    /\ trecv.out # trecv.self
    /\ trecv.f[trecv.out[2]] # trecv.out[2]

\* A slot on which no write has completed or is in progress.
Untouched(i) ==
    /\ \A p \in WrittenPositions : BitAnd(p, cap - 1) # i
    /\ \A p \in InFlight : BitAnd(p, cap - 1) # i

\* C13 (as stated): after new(capacity), the index of every slot p is
\* p + capacity.
C13_Original ==
    \A i \in 0 .. cap - 1 : Untouched(i) => slot_index[i] = i + cap

\* C13 (amended): after new(capacity), the index of every slot p is p + 1;
\* a slot keeps it until the first write to the slot stores its index.
C13_InitialIndex ==
    \A i \in 0 .. cap - 1 : Untouched(i) => slot_index[i] = i + 1

\* C13 witness: a buffer of several slots, one of which has been written and
\* another not.
C13_Witness ==
    /\ cap > 2
    /\ ~Untouched(0)
    /\ Untouched(cap - 1)
    /\ slot_index[cap - 1] = cap
    /\ slot_index[cap - 1] # cap - 1 + cap

\* C14: before any write, every read returns None, whatever the capacity and
\* the position: the initial indices are valid for no slot, and no read
\* returns data that was never stored.
C14_InitialIndicesInvalid ==
    (NothingWritten /\ IsRead) => ret.res = None

\* The position of the most recent completed write on slot i is L.
LastWrite(i, L) ==
    /\ L \in WrittenPositions
    /\ \A k \in WrittenPositions : BitAnd(k, cap - 1) = i => Rank(k) <= Rank(L)

\* C15: with one writer, the index of a slot equals a position L of the slot
\* exactly when the most recent completed write on the slot was at L; the
\* index of a slot without a completed write is no position of the slot.
C15_SlotInvariant ==
    \A i \in 0 .. cap - 1 : \A L \in Positions :
        BitAnd(L, cap - 1) = i => (slot_index[i] = L <=> LastWrite(i, L))

\* C16: a read(p) returns Some only if the write at p had stored its data
\* before the read loaded the slot's index: never for a position that was
\* not written, and never while the write at p is between its store of the
\* data and its store of the index, when the read returns None.
C16_NoEarlyVisibility ==
    IsRead =>
        /\ ret.win.mid => ret.res = None
        /\ ret.res.some => ret.win.pub

\* C17 (as stated): with one writer and at least two slots, a read(p) that
\* loaded the index p returns the value of the completed write at p unless
\* the writer stores data into the slot between the read's load of the index
\* and its load of the data.
C17_Original ==
    (cap >= 2 /\ IsSome /\ ret.win.quiet) =>
        /\ written[ret.index] # Unwritten
        /\ ret.res.v = written[ret.index]

\* C17 (amended): with one writer and at least two slots, a read(p) that
\* loaded the index p returns the value of the completed write at p unless a
\* write at another position of the slot is in progress when the read loads
\* the index, its data stored or being stored, or begins before the read
\* loads the data.
C17_CoherenceOutsideWindow ==
    (cap >= 2 /\ IsSome /\ ret.win.clean) =>
        /\ written[ret.index] # Unwritten
        /\ ret.res.v = written[ret.index]

\* C17 witness: in a buffer of several slots a read returned the value of
\* the completed write at its position while the writer, its data stored,
\* was about to publish another value in another slot.
C17_Witness ==
    /\ cap >= 2
    /\ IsSome
    /\ ret.win.clean
    /\ ret.res.v = written[ret.index]
    /\ wpc = "index"
    /\ BitAnd(windex, cap - 1) # BitAnd(ret.index, cap - 1)
    /\ Val(wvalue) # ret.res.v

\* No write is in progress in either writing thread.
WritersIdle == wpc = "idle" /\ w2pc = "idle"

\* C18: two threads that write the positions of one slot concurrently break
\* the pairing of index and data.  When both have returned the data of a
\* slot is the value written at one of the slot's positions (or a mix of two
\* stores that raced), yet not always at the position the index names: a
\* read at that position then returns the other position's value.
C18_WritersBreakPairing ==
    WritersIdle =>
        \A i \in 0 .. cap - 1 :
            \/ slot_data[i] \in {Uninit, Garbage}
            \/ \E k \in WrittenPositions : /\ BitAnd(k, cap - 1) = i
                                            /\ slot_data[i] = written[k]

\* C18 witness: both writes have returned, the slot's index names p, and a
\* read(p) has just returned the value written at the other position of the
\* slot, which is not the value written at p.
C18_Witness ==
    /\ WritersIdle
    /\ rpc[Observer] = "idle"
    /\ IsSome
    /\ slot_index[BitAnd(ret.index, cap - 1)] = ret.index
    /\ written[ret.index] # Unwritten
    /\ ret.res.v # written[ret.index]
    /\ \E k \in WrittenPositions : /\ k # ret.index
                                    /\ SameSlot(k, ret.index)
                                    /\ ret.res.v = written[k]

\* No write at another position of p's slot has completed or is in progress.
ExclusiveSlot(p) ==
    \A k \in Positions :
        (k # p /\ BitAnd(k, cap - 1) = BitAnd(p, cap - 1)) =>
            (written[k] = Unwritten /\ k \notin InFlight)

\* C19: writes by two threads to different slots do not interfere.  A
\* read(p) of a slot that only the write at p has touched never returns
\* another write's value: it returns the value written at p, and it returns
\* it whenever that write has completed, whatever the other thread is
\* writing meanwhile.
C19_DifferentSlots ==
    (cap >= 2 /\ IsRead /\ ExclusiveSlot(ret.index)) =>
        /\ ret.res.some => ret.res.v = written[ret.index]
        /\ ret.win.pub => ret.res.some

\* C19 witness: a read(p) returned the value written at p while the second
\* thread, which was handed an earlier position q of another slot and so
\* began before the write at p completed, has stored another value at q and
\* not yet published it.
C19_Witness ==
    /\ cap >= 2
    /\ IsSome
    /\ ExclusiveSlot(ret.index)
    /\ ret.res.v = written[ret.index]
    /\ w2pc = "index"
    /\ Rank(w2index) < Rank(ret.index)
    /\ BitAnd(w2index, cap - 1) # BitAnd(ret.index, cap - 1)
    /\ Val(w2value) # ret.res.v

\* C20: positions wrap modulo 2^UsizeBits.  p and p + cap, wrapped, address
\* the same slot for every p; once write(p, v1) and write(p + cap, v2) have
\* completed across the overflow, read(p) returns None and read(p + cap)
\* returns v2.
C20_WrapAround ==
    /\ \A p \in 0 .. Usize - 1 : at(p) = at((p + cap) % Usize)
    /\ (/\ IsRead
        /\ ret.index + cap >= Usize
        /\ ret.win.lapped)
       => ret.res = None
    /\ (/\ IsRead
        /\ ret.index < cap
        /\ ret.win.pub /\ ret.win.clean /\ ~ret.win.lapped)
       => ret.res = Some(written[ret.index])

\* C20 witness: the position of a read that returned v2 is p + cap wrapped
\* past the overflow, and write(p, v1) had completed with another value.
C20_Witness ==
    /\ IsSome
    /\ ret.index < cap
    /\ ret.res.v = written[ret.index]
    /\ written[ret.index + Usize - cap] \notin {Unwritten, ret.res.v}
    /\ slot_index[at(ret.index)] = ret.index
====
